---- MODULE Spec2Model ----
(***************************************************************************)
(* State-machine model of KXSpinnerLikeBehavior                            *)
(* (src/kivyx/uix/behavior/spinner.py).                                    *)
(*                                                                         *)
(* The control is single threaded: every handler (_restart, a dispatched   *)
(* event) runs to its next suspension point before anything else runs, so  *)
(* each handler is one action.  The handlers are written as operators from *)
(* a state record to a state record (st -> st), composed the way the code  *)
(* composes the calls, and an action installs the resulting record.        *)
(*                                                                         *)
(* Kivy and asynckivy are collaborators outside the repository; what the   *)
(* code relies on is modelled by what they do:                             *)
(*   - Widget.add_widget inserts at index 0 of `children`, so `children`   *)
(*     lists the widgets latest-added first, and raises when the widget    *)
(*     already has a parent;                                               *)
(*   - Clock.create_trigger schedules its callback once per frame however  *)
(*     many times the trigger is called;                                   *)
(*   - Task.cancel() on a suspended task runs its finally blocks before it *)
(*     returns; on a finished task it does nothing;                        *)
(*   - DropDown.select dispatches on_select; DropDown.dismiss schedules    *)
(*     _real_dismiss, which detaches the dropdown and dispatches           *)
(*     on_dismiss.  The dismiss() calls made while one event is dispatched *)
(*     fire back to back in one frame and count as one scheduled frame.    *)
(***************************************************************************)
EXTENDS Integers, Sequences, FiniteSets, TLC

\* ------------------------------------------------------------------ bounds
\* longest option_data list
MaxOptions == 2
\* number of _restart calls explored
MaxRestarts == 4
\* mutations of watched properties between two clock frames
MaxMuts == 2
\* activation signals counted per run
MaxSignals == 2
\* scheduled _real_dismiss frames per dropdown
MaxPending == 1

\* ------------------------------------------------------- program constants
\* `None` as a widget / dropdown / task reference
NoWidget == 0
NoDropdown == 0
dummy_task == 0
\* NumericProperty(None): no auto_select index
NoAuto == -1
\* the height an option widget is constructed with (SpinnerOption: 48dp)
OptionHeight == 48

\* --------------------------------------------------------------- utilities
Max(a, b) == IF a >= b THEN a ELSE b
MinOf(S) == CHOOSE x \in S : \A y \in S : x <= y
Reverse(s) == [i \in 1..Len(s) |-> s[Len(s) + 1 - i]]
Range(s) == {s[i] : i \in 1..Len(s)}
Without(f, S) == [x \in (DOMAIN f) \ S |-> f[x]]
\* s without the first occurrence of x (EventDispatcher.unbind removes one)
RemoveFirst(s, x) ==
    IF x \notin Range(s) THEN s
    ELSE LET i == MinOf({j \in 1..Len(s) : s[j] = x})
         IN  SubSeq(s, 1, i - 1) \o SubSeq(s, i + 1, Len(s))

\* ------------------------------------------------------------ value domains
\* Widget classes.  A class property holds a class, the registered name of
\* a class (a str), or a falsy value ("").  The host configures OptB and
\* DropB by name.
OptionClasses == {"OptA", "OptB"}
DropDownClasses == {"DropA", "DropB"}
ClassNames == {"'OptB'", "'DropB'"}
\* Factory.get(name)
Factory_get(name) ==
    CASE name = "'OptB'" -> "OptB"
      [] name = "'DropB'" -> "DropB"

\* One option descriptor: the dict applied to an option widget.  `text` is
\* the value it sets; ok = FALSE is a dict one of whose items makes setattr
\* raise.
Descriptor(k, ok) == [text |-> k, ok |-> ok]
GoodData(n) == [k \in 1..n |-> Descriptor(k, TRUE)]
BadData == [k \in 1..MaxOptions |-> Descriptor(k, k < MaxOptions)]
OptionDataChoices == {GoodData(n) : n \in 0..MaxOptions} \cup {BadData}
OptionClsChoices == {"", "OptA", "'OptB'"}
DropDownClsChoices == {"", "DropA", "'DropB'"}
AutoSelectChoices == {NoAuto} \cup (0..(MaxOptions - 1))
\* heights the host gives the control (Widget.height is 100 at first)
Heights == {100, 120}

VARIABLES
    \* kivy properties of the control (lines 39-61)
    selection, option_data, option_cls, auto_select, dropdown_cls, sync_height,
    \* the control's height (a kivy property of the host widget)
    height,
    \* the ClockEvent made by Clock.create_trigger(self._restart) is scheduled
    triggered,
    \* self._main_task: id of the task last started (dummy_task at first)
    main_task,
    \* the coroutines of _main that are suspended in the loop:
    \*   task id -> [pc, dd, sync, option_cls, opens, acts]
    runs,
    \* self._previously_used_resources
    res,
    \* every DropDown made so far, by id:
    \*   [cls, children, open, on_select, pending]
    dds,
    \* every option widget made so far, by id: [cls, text, handlers, height]
    ws,
    \* containers whose spacing/padding setters are bound to the control
    links,
    \* containers whose _sync_height partial is bound to the control's height
    hbinds,
    \* number of _restart calls so far; number of properties changed since
    \* the last clock frame
    restarts, muts,
    \* history of the last _restart, written by the handlers and read only by
    \* the properties
    hist

cfgvars == <<option_data, option_cls, auto_select, dropdown_cls, sync_height,
             height>>
vars == <<selection, option_data, option_cls, auto_select, dropdown_cls,
          sync_height, height, triggered, main_task, runs, res, dds, ws,
          links, hbinds, restarts, muts, hist>>

\* The part of the state the handlers work on, as one record.
Cur == [selection |-> selection, main_task |-> main_task, runs |-> runs,
        res |-> res, dds |-> dds, ws |-> ws, links |-> links,
        hbinds |-> hbinds, hist |-> hist]

Install(st) ==
    /\ selection' = st.selection
    /\ main_task' = st.main_task
    /\ runs' = st.runs
    /\ res' = st.res
    /\ dds' = st.dds
    /\ ws' = st.ws
    /\ links' = st.links
    /\ hbinds' = st.hbinds
    /\ hist' = st.hist

\* ------------------------------------------------------- kivy collaborators
\* cls(): a new DropDown, closed, with an empty container
NewDropDown(cls) ==
    [cls |-> cls, children |-> <<>>, open |-> FALSE, on_select |-> 0,
     pending |-> 0]
\* option_cls(): a new option widget
NewWidget(cls) ==
    [cls |-> cls, text |-> 0, handlers |-> <<>>, height |-> OptionHeight]
\* widget.parent is not None
HasParent(st, w) ==
    \E d \in 1..Len(st.dds) : w \in Range(st.dds[d].children)

\* ------------------------------------------------------------------ _main
\* lines 84-85 / 102-103: a str names a registered class
Resolve(cls) == IF cls \in ClassNames THEN Factory_get(cls) ELSE cls

\* lines 80-96: the dropdown of this run, the pooled one when its class is
\* the configured class, else a new one whose container setters are bound to
\* option_spacing / option_padding.  Gives [st, dd].
prepare_dropdown(st) ==
    LET dd0 == st.res.dropdown
        cls == Resolve(dropdown_cls)
        id == Len(st.dds) + 1
    IN  IF dd0 = NoDropdown \/ cls # st.dds[dd0].cls
        THEN [st |-> [st EXCEPT !.dds = Append(@, NewDropDown(cls)),
                                !.links = Append(@, id)],
              dd |-> id]
        ELSE [st |-> st, dd |-> dd0]

\* lines 106-112: the pooled widgets that head the iterator option_widgets:
\* all of them when the first one is of class option_cls, else none.
\* After them the iterator calls option_cls() for every further item.
pooled_widgets(st, cls) ==
    LET pool == st.res.option_widgets
    IN  IF pool # <<>> /\ st.ws[pool[1]].cls = cls THEN pool ELSE <<>>

\* lines 114-121: zip(option_widgets, self.option_data).  The k-th widget is
\* taken from the iterator before the k-th descriptor, so the loop takes
\* one widget more than it uses when it runs to the end of option_data.
\* For each pair: setattr of every item (raises on a bad descriptor), bind
\* on_release to partial(_on_release_item, dd), dd.add_widget (raises when
\* the widget has a parent; else the widget becomes children[0], so the
\* children read latest-added first).  Gives [st, raised, constructed].
add_options(st, dd, cls) ==
    LET P == pooled_widgets(st, cls)
        n == Len(option_data)
        base == Len(st.ws)
        W(k) == IF k <= Len(P) THEN P[k] ELSE base + (k - Len(P))
        SetattrRaises(k) == ~option_data[k].ok
        AddRaises(k) == HasParent(st, W(k))
        Fails == {k \in 1..n : SetattrRaises(k) \/ AddRaises(k)}
        failK == IF Fails = {} THEN 0 ELSE MinOf(Fails)
        added == IF failK = 0 THEN n ELSE failK - 1
        bound == IF failK # 0 /\ ~SetattrRaises(failK) THEN failK ELSE added
        taken == IF failK = 0 THEN n + 1 ELSE failK
        constructed == Max(0, taken - Len(P))
        ws1 == st.ws \o [j \in 1..constructed |-> NewWidget(cls)]
        ws2 == [w \in 1..Len(ws1) |->
                  IF \E k \in 1..bound : W(k) = w
                  THEN LET k == CHOOSE k \in 1..bound : W(k) = w
                       IN  [ws1[w] EXCEPT !.text = option_data[k].text,
                                          !.handlers = Append(@, dd)]
                  ELSE ws1[w]]
        children == [j \in 1..added |-> W(added + 1 - j)]
                        \o st.dds[dd].children
    IN  [st |-> [st EXCEPT !.ws = ws2, !.dds[dd].children = children],
         raised |-> failK # 0,
         constructed |-> constructed]

\* lines 160-163: every child of the container of dropdown d gets height h
sync_height_(st, d, h) ==
    [st EXCEPT !.ws = [w \in 1..Len(st.ws) |->
                         IF w \in Range(st.dds[d].children)
                         THEN [st.ws[w] EXCEPT !.height = h]
                         ELSE st.ws[w]]]

\* Mutant: the partial is bound but not called with the current height.
bind_sync_height_only(st, dd) ==
    IF sync_height THEN [st EXCEPT !.hbinds = Append(@, dd)] ELSE st

\* lines 124-129: call partial(_sync_height, dd.container) with the
\* control's height and bind it to height
bind_sync_height(st, dd) ==
    IF sync_height
    THEN [sync_height_(st, dd, height) EXCEPT !.hbinds = Append(@, dd)]
    ELSE st

\* Mutant: the index is taken from the head of children.
auto_select_from_head(st, dd) ==
    LET auto == auto_select
        cs == st.dds[dd].children
    IN  IF st.selection # NoWidget /\ st.selection \in Range(cs) THEN st
        ELSE IF auto = NoAuto \/ Len(cs) <= auto
             THEN [st EXCEPT !.selection = NoWidget]
             ELSE [st EXCEPT !.selection = cs[auto + 1]]

\* Mutant: the current selection is not looked for among the children.
auto_select_always(st, dd) ==
    LET auto == auto_select
        cs == st.dds[dd].children
    IN  IF auto = NoAuto \/ Len(cs) <= auto
        THEN [st EXCEPT !.selection = NoWidget]
        ELSE [st EXCEPT !.selection = cs[Len(cs) - auto]]

\* lines 132-140: cs = dd.container.children, latest-added first
auto_select_(st, dd) ==
    LET auto == auto_select
        cs == st.dds[dd].children
    IN  IF st.selection # NoWidget /\ st.selection \in Range(cs) THEN st
        ELSE IF auto = NoAuto \/ Len(cs) <= auto
             THEN [st EXCEPT !.selection = NoWidget]
             ELSE [st EXCEPT !.selection = cs[Len(cs) - auto]]

\* lines 143-148: bind on_select and suspend on the control's on_release
enter_loop(st, t, dd, cls) ==
    [st EXCEPT !.dds[dd].on_select = @ + 1,
               !.runs = @ @@ (t :> [pc |-> "release", dd |-> dd,
                                    sync |-> sync_height, option_cls |-> cls,
                                    opens |-> 0, acts |-> 0])]

\* What the last _main did, for the properties: how it ended, the pool it
\* read, the number of option_cls() calls, the descriptor count and the
\* auto_select index it read, and the selection it left.
Outcome(st, what, seen, constructed) ==
    [st EXCEPT !.hist.outcome = what, !.hist.seen = seen,
               !.hist.constructed = constructed,
               !.hist.n = Len(option_data),
               !.hist.auto = auto_select,
               !.hist.selected = st.selection]

\* lines 76-150, up to the first suspension.  t is the id of the new task.
\* ak.start returns the task when _main returned or suspended; when _main
\* raised, the exception leaves _restart before _main_task is assigned.
main(st, t) ==
    LET seen == st.res
    IN  IF dropdown_cls = ""
        THEN Outcome([st EXCEPT !.main_task = t], "no_dropdown_cls", seen, 0)
        ELSE
        LET p == prepare_dropdown(st)
        IN  IF option_cls = ""
            THEN Outcome([p.st EXCEPT !.main_task = t], "no_option_cls",
                         seen, 0)
            ELSE
            LET cls == Resolve(option_cls)
                a == add_options(p.st, p.dd, cls)
            IN  IF a.raised
                THEN Outcome(a.st, "raised", seen, a.constructed)
                ELSE
                LET s1 == bind_sync_height(a.st, p.dd)
                    s2 == auto_select_(s1, p.dd)
                    s3 == enter_loop(s2, t, p.dd, cls)
                IN  Outcome([s3 EXCEPT !.main_task = t], "running", seen,
                            a.constructed)

\* Mutant: the dropdown is not forced closed (no _real_dismiss).
finally_keeps_open(st, t) ==
    LET r == st.runs[t]
        dd == r.dd
        cs == st.dds[dd].children
    IN  [st EXCEPT
            !.dds[dd].on_select = Max(0, @ - 1),
            !.hbinds = IF r.sync THEN RemoveFirst(@, dd) ELSE @,
            !.res = [dropdown |-> dd, option_widgets |-> Reverse(cs)],
            !.dds[dd].children = <<>>,
            !.runs = Without(@, {t})]

\* Mutant: the height binding is not removed.
finally_keeps_height(st, t) ==
    LET r == st.runs[t]
        dd == r.dd
        cs == st.dds[dd].children
    IN  [st EXCEPT
            !.dds[dd].on_select = Max(0, @ - 1),
            !.res = [dropdown |-> dd, option_widgets |-> Reverse(cs)],
            !.dds[dd].children = <<>>,
            !.dds[dd].open = FALSE,
            !.runs = Without(@, {t})]

\* Mutant: on_select stays bound to _on_dropdown_select.
finally_keeps_on_select(st, t) ==
    LET r == st.runs[t]
        dd == r.dd
        cs == st.dds[dd].children
    IN  [st EXCEPT
            !.hbinds = IF r.sync THEN RemoveFirst(@, dd) ELSE @,
            !.res = [dropdown |-> dd, option_widgets |-> Reverse(cs)],
            !.dds[dd].children = <<>>,
            !.dds[dd].open = FALSE,
            !.runs = Without(@, {t})]

\* lines 151-158: the finally block of task t
finally_(st, t) ==
    LET r == st.runs[t]
        dd == r.dd
        cs == st.dds[dd].children
    IN  [st EXCEPT
            !.dds[dd].on_select = Max(0, @ - 1),
            !.hbinds = IF r.sync THEN RemoveFirst(@, dd) ELSE @,
            !.res = [dropdown |-> dd, option_widgets |-> Reverse(cs)],
            !.dds[dd].children = <<>>,
            !.dds[dd].open = FALSE,
            !.runs = Without(@, {t})]

\* Mutant: the previous task is not cancelled.
cancel_forgotten(st, t) == st

\* Task.cancel(): a suspended task is closed, which runs its finally block
cancel(st, t) == IF t \in DOMAIN st.runs THEN finally_(st, t) ELSE st

\* The run about to be cancelled, and the state right after its cleanup.
Before(st) ==
    LET t == st.main_task
        live == t \in DOMAIN st.runs
        dd == IF live THEN st.runs[t].dd ELSE NoDropdown
    IN  [live |-> live, pc |-> IF live THEN st.runs[t].pc ELSE "none",
         dd |-> dd,
         children |-> IF live THEN st.dds[dd].children ELSE <<>>,
         option_cls |-> IF live THEN st.runs[t].option_cls ELSE "",
         sync |-> live /\ st.runs[t].sync,
         n |-> st.hist.n,
         selection |-> st.selection]
After(st, before) ==
    LET dd == before.dd
    IN  IF ~before.live THEN [done |-> FALSE]
        ELSE [done |-> TRUE, on_select |-> st.dds[dd].on_select,
              hbound |-> dd \in Range(st.hbinds),
              children |-> st.dds[dd].children, open |-> st.dds[dd].open,
              res |-> st.res, nruns |-> Cardinality(DOMAIN st.runs)]

\* The state in which a setup begins: the bindings on the control and the
\* children of every dropdown.
Begin(st) ==
    [links |-> st.links, hbinds |-> st.hbinds,
     children |-> [d \in 1..Len(st.dds) |-> st.dds[d].children]]

\* Mutant: the new task is started before the previous one is cancelled.
restart_start_first(st, t) ==
    LET before == Before(st)
        s1 == [st EXCEPT !.hist.before = before,
                         !.hist.after = After(st, before),
                         !.hist.prev = st.hist.outcome,
                         !.hist.begin = Begin(st)]
    IN  cancel(main(s1, t), st.main_task)

\* lines 72-74
restart(st, t) ==
    LET before == Before(st)
        s1 == cancel(st, st.main_task)
        s2 == [s1 EXCEPT !.hist.before = before,
                         !.hist.after = After(s1, before),
                         !.hist.prev = st.hist.outcome,
                         !.hist.begin = Begin(s1)]
    IN  main(s2, t)

\* ------------------------------------------------------------------ events
\* line 149: dd.open(self)
dd_open(st, d) == [st EXCEPT !.dds[d].open = TRUE]

\* Mutant: the loop opens the dropdown on every on_release, also while it
\* waits for on_dismiss.
on_release_any_state(st) ==
    LET opened == {st.runs[t].dd : t \in DOMAIN st.runs}
    IN  [st EXCEPT
            !.runs = [t \in DOMAIN st.runs |->
                        [st.runs[t] EXCEPT !.pc = "dismiss",
                                           !.opens = @ + 1,
                                           !.acts = @ + 1]],
            !.dds = [d \in 1..Len(st.dds) |->
                        IF d \in opened THEN dd_open(st, d).dds[d]
                        ELSE st.dds[d]]]

\* lines 148-150: the control dispatches on_release.  A task suspended on it
\* resumes, opens its dropdown and suspends on the dropdown's on_dismiss.
on_release(st) ==
    LET waiting == {t \in DOMAIN st.runs : st.runs[t].pc = "release"}
        opened == {st.runs[t].dd : t \in waiting}
    IN  [st EXCEPT
            !.runs = [t \in DOMAIN st.runs |->
                        IF t \in waiting
                        THEN [st.runs[t] EXCEPT !.pc = "dismiss",
                                                !.opens = @ + 1,
                                                !.acts = @ + 1]
                        ELSE [st.runs[t] EXCEPT !.acts = @ + 1]],
            !.dds = [d \in 1..Len(st.dds) |->
                        IF d \in opened THEN dd_open(st, d).dds[d]
                        ELSE st.dds[d]]]

\* Mutant: the dismissal resumes every task of d whatever it awaits; a task
\* that awaits the activation goes on to open the dropdown.
on_dismiss_wakes_any(st, d) ==
    LET mine == {t \in DOMAIN st.runs : st.runs[t].dd = d}
        early == {t \in mine : st.runs[t].pc = "release"}
    IN  [st EXCEPT
            !.dds[d].open = (early # {}),
            !.dds[d].pending = @ - 1,
            !.runs = [t \in DOMAIN st.runs |->
                        IF t \in early
                        THEN [st.runs[t] EXCEPT !.pc = "dismiss",
                                                !.opens = @ + 1]
                        ELSE IF t \in mine
                        THEN [st.runs[t] EXCEPT !.pc = "release"]
                        ELSE st.runs[t]]]

\* lines 147-150: DropDown._real_dismiss of d detaches it and dispatches
\* on_dismiss.  A task suspended on it goes round the loop and suspends on
\* the control's on_release.
on_dismiss(st, d) ==
    LET waiting == {t \in DOMAIN st.runs :
                        st.runs[t].pc = "dismiss" /\ st.runs[t].dd = d}
    IN  [st EXCEPT
            !.dds[d].open = FALSE,
            !.dds[d].pending = @ - 1,
            !.runs = [t \in DOMAIN st.runs |->
                        IF t \in waiting
                        THEN [st.runs[t] EXCEPT !.pc = "release"]
                        ELSE st.runs[t]]]

\* DropDown.dismiss(): schedule _real_dismiss
dismiss(st, d) == [st EXCEPT !.dds[d].pending = @ + 1]

\* lines 169-171, once per _on_dropdown_select bound to dropdown d
on_dropdown_select(st, d, w) ==
    IF st.dds[d].on_select > 0 THEN [st EXCEPT !.selection = w] ELSE st

\* lines 165-167: option widget w dispatches on_release; every bound
\* partial(_on_release_item, d) calls d.select(w), which dispatches
\* on_select on d and dismisses d.
on_release_item(st, w) ==
    LET hs == st.ws[w].handlers
        touched == Range(hs)
    IN  [st EXCEPT
            !.selection =
                IF \E d \in touched : on_dropdown_select(st, d, w).selection = w
                THEN w ELSE @,
            !.dds = [d \in 1..Len(st.dds) |->
                        IF d \in touched THEN dismiss(st, d).dds[d]
                        ELSE st.dds[d]]]

\* line 127: the control's height changed to h; every partial bound to it
\* is called, in the order bound
RECURSIVE on_height(_, _, _)
on_height(st, bound, h) ==
    IF bound = <<>> THEN st
    ELSE on_height(sync_height_(st, Head(bound), h), Tail(bound), h)

\* ----------------------------------------------------------------- actions
\* Mutant: sync_height is not bound to the trigger.
Watched_without_sync_height ==
    {"option_data", "option_cls", "auto_select", "dropdown_cls"}

\* line 69: the properties whose change calls the trigger
Watched ==
    {"option_data", "option_cls", "auto_select", "dropdown_cls",
     "sync_height"}

\* lines 68-70: a changed property calls the trigger when it is watched;
\* the trigger schedules _restart for the next frame unless it is scheduled.
\* At most `burst` properties change between two frames, and none once the
\* last restart explored has run.
Mutated(prop, burst, maxr) ==
    /\ muts < burst
    /\ restarts < maxr
    /\ muts' = muts + 1
    /\ triggered' = (triggered \/ prop \in Watched)
    /\ UNCHANGED <<selection, main_task, runs, res, dds, ws, links, hbinds,
                   restarts, hist, height>>

Set_option_data(burst, maxr) ==
    \E v \in OptionDataChoices \ {option_data} :
        /\ option_data' = v
        /\ UNCHANGED <<option_cls, auto_select, dropdown_cls, sync_height>>
        /\ Mutated("option_data", burst, maxr)

Set_option_cls(burst, maxr) ==
    \E v \in OptionClsChoices \ {option_cls} :
        /\ option_cls' = v
        /\ UNCHANGED <<option_data, auto_select, dropdown_cls, sync_height>>
        /\ Mutated("option_cls", burst, maxr)

Set_auto_select(burst, maxr) ==
    \E v \in AutoSelectChoices \ {auto_select} :
        /\ auto_select' = v
        /\ UNCHANGED <<option_data, option_cls, dropdown_cls, sync_height>>
        /\ Mutated("auto_select", burst, maxr)

Set_dropdown_cls(burst, maxr) ==
    \E v \in DropDownClsChoices \ {dropdown_cls} :
        /\ dropdown_cls' = v
        /\ UNCHANGED <<option_data, option_cls, auto_select, sync_height>>
        /\ Mutated("dropdown_cls", burst, maxr)

Set_sync_height(burst, maxr) ==
    /\ sync_height' = ~sync_height
    /\ UNCHANGED <<option_data, option_cls, auto_select, dropdown_cls>>
    /\ Mutated("sync_height", burst, maxr)

\* The host resizes the control.  height is not bound to the trigger.
Set_height ==
    \E h \in Heights \ {height} :
        /\ height' = h
        /\ Install(on_height(Cur, hbinds, h))
        /\ UNCHANGED <<option_data, option_cls, auto_select, dropdown_cls,
                       sync_height>>
        /\ UNCHANGED <<restarts, muts, triggered>>

\* A clock frame in which the trigger's event is scheduled: _restart runs.
Tick(maxr) ==
    /\ triggered
    /\ restarts < maxr
    /\ Install([restart(Cur, restarts + 1) EXCEPT !.hist.batch = muts])
    /\ restarts' = restarts + 1
    /\ triggered' = FALSE
    /\ muts' = 0
    /\ UNCHANGED cfgvars

\* A clock frame in which it is not.
IdleTick ==
    /\ ~triggered
    /\ muts' = 0
    /\ UNCHANGED <<selection, main_task, runs, res, dds, ws, links, hbinds,
                   restarts, triggered, hist>>
    /\ UNCHANGED cfgvars

\* The user releases the control: the activation signal.
Activate ==
    /\ \A t \in DOMAIN runs : runs[t].acts < MaxSignals
    /\ Install(on_release(Cur))
    /\ UNCHANGED <<restarts, muts, triggered>>
    /\ UNCHANGED cfgvars

\* The user touches outside an open dropdown: DropDown.dismiss().
TouchOutside ==
    \E d \in 1..Len(dds) :
        /\ dds[d].open
        /\ dds[d].pending < MaxPending
        /\ Install(dismiss(Cur, d))
        /\ UNCHANGED <<restarts, muts, triggered>>
        /\ UNCHANGED cfgvars

\* A clock frame in which a scheduled _real_dismiss runs: the dismissal
\* signal.
RealDismiss ==
    \E d \in 1..Len(dds) :
        /\ dds[d].pending > 0
        /\ Install(on_dismiss(Cur, d))
        /\ UNCHANGED <<restarts, muts, triggered>>
        /\ UNCHANGED cfgvars

\* The user releases an option widget shown in an open dropdown.
ReleaseOption ==
    \E d \in 1..Len(dds) :
        /\ dds[d].open
        /\ \E w \in Range(dds[d].children) :
            /\ \A h \in Range(ws[w].handlers) : dds[h].pending < MaxPending
            /\ Install(on_release_item(Cur, w))
        /\ UNCHANGED <<restarts, muts, triggered>>
        /\ UNCHANGED cfgvars

\* An option widget that is not shown dispatches on_release: it was pressed
\* while shown and a restart took it out of the overlay before the touch
\* ended (the widget has grabbed the touch), or the host dispatches the
\* event on a widget it holds (the selection is such a reference).  The
\* handlers bound at line 120 are still bound.
ReleaseDetached ==
    \E w \in 1..Len(ws) :
        /\ \A d \in 1..Len(dds) : ~(dds[d].open /\ w \in Range(dds[d].children))
        /\ ws[w].handlers # <<>>
        /\ \A h \in Range(ws[w].handlers) : dds[h].pending < MaxPending
        /\ Install(on_release_item(Cur, w))
        /\ UNCHANGED <<restarts, muts, triggered>>
        /\ UNCHANGED cfgvars

\* Mutant: the properties are bound to the trigger before the keyword
\* arguments are applied, so a control constructed with option_data has its
\* restart scheduled.
Init_bound_first ==
    /\ selection = NoWidget
    /\ option_data \in OptionDataChoices
    /\ option_cls = "OptA"
    /\ auto_select = NoAuto
    /\ dropdown_cls = "DropA"
    /\ sync_height = FALSE
    /\ height = 100
    /\ triggered = (option_data # <<>>)
    /\ main_task = dummy_task
    /\ runs = <<>>
    /\ res = [dropdown |-> NoDropdown, option_widgets |-> <<>>]
    /\ dds = <<>>
    /\ ws = <<>>
    /\ links = <<>>
    /\ hbinds = <<>>
    /\ restarts = 0
    /\ muts = 0
    /\ hist = [outcome |-> "init",
               seen |-> [dropdown |-> NoDropdown, option_widgets |-> <<>>],
               constructed |-> 0, n |-> 0, auto |-> NoAuto,
               selected |-> NoWidget, batch |-> 0,
               before |-> [live |-> FALSE],
               after |-> [done |-> FALSE],
               prev |-> "init",
               begin |-> [links |-> <<>>, hbinds |-> <<>>,
                          children |-> <<>>]]

\* lines 63-70: the state after __init__.  The properties hold their
\* defaults or the values given as keyword arguments; they are bound to the
\* trigger only after they were set, so nothing is scheduled.
Init ==
    /\ selection = NoWidget
    /\ option_data \in OptionDataChoices
    /\ option_cls = "OptA"
    /\ auto_select = NoAuto
    /\ dropdown_cls = "DropA"
    /\ sync_height = FALSE
    /\ height = 100
    /\ triggered = FALSE
    /\ main_task = dummy_task
    /\ runs = <<>>
    /\ res = [dropdown |-> NoDropdown, option_widgets |-> <<>>]
    /\ dds = <<>>
    /\ ws = <<>>
    /\ links = <<>>
    /\ hbinds = <<>>
    /\ restarts = 0
    /\ muts = 0
    /\ hist = [outcome |-> "init",
               seen |-> [dropdown |-> NoDropdown, option_widgets |-> <<>>],
               constructed |-> 0, n |-> 0, auto |-> NoAuto,
               selected |-> NoWidget, batch |-> 0,
               before |-> [live |-> FALSE],
               after |-> [done |-> FALSE],
               prev |-> "init",
               begin |-> [links |-> <<>>, hbinds |-> <<>>,
                          children |-> <<>>]]

\* What the user does with the control and its dropdown.
Signals ==
    \/ Activate
    \/ TouchOutside
    \/ RealDismiss
    \/ ReleaseOption

\* The host changes one watched property per frame.
Next ==
    \/ Set_option_data(1, MaxRestarts)
    \/ Set_option_cls(1, MaxRestarts)
    \/ Set_auto_select(1, MaxRestarts)
    \/ Set_dropdown_cls(1, MaxRestarts)
    \/ Set_sync_height(1, MaxRestarts)
    \/ Tick(MaxRestarts)
    \/ IdleTick
    \/ Signals

Spec == Init /\ [][Next]_vars

\* The host changes up to MaxMuts watched properties per frame; fewer
\* restarts are explored.
BurstRestarts == MaxRestarts - 2
NextBurst ==
    \/ Set_option_data(MaxMuts, BurstRestarts)
    \/ Set_option_cls(MaxMuts, BurstRestarts)
    \/ Set_auto_select(MaxMuts, BurstRestarts)
    \/ Set_dropdown_cls(MaxMuts, BurstRestarts)
    \/ Set_sync_height(MaxMuts, BurstRestarts)
    \/ Tick(BurstRestarts)
    \/ IdleTick
    \/ Signals

SpecBurst == Init /\ [][NextBurst]_vars

\* As Next, and option widgets that are not shown are released too; one
\* restart fewer is explored.
DetachedRestarts == MaxRestarts - 1
NextDetached ==
    \/ Set_option_data(1, DetachedRestarts)
    \/ Set_option_cls(1, DetachedRestarts)
    \/ Set_auto_select(1, DetachedRestarts)
    \/ Set_dropdown_cls(1, DetachedRestarts)
    \/ Set_sync_height(1, DetachedRestarts)
    \/ Tick(DetachedRestarts)
    \/ IdleTick
    \/ Signals
    \/ ReleaseDetached

SpecDetached == Init /\ [][NextDetached]_vars

\* As Next, and the host resizes the control; fewer restarts are explored.
HeightRestarts == MaxRestarts - 1
NextHeight ==
    \/ Set_option_data(1, HeightRestarts)
    \/ Set_option_cls(1, HeightRestarts)
    \/ Set_auto_select(1, HeightRestarts)
    \/ Set_dropdown_cls(1, HeightRestarts)
    \/ Set_sync_height(1, HeightRestarts)
    \/ Set_height
    \/ Tick(HeightRestarts)
    \/ IdleTick
    \/ Signals

SpecHeight == Init /\ [][NextHeight]_vars

\* -------------------------------------------------------------- properties
\* The task _main_task refers to is suspended in the loop.
Live == main_task \in DOMAIN runs
\* The children of the live run's dropdown, latest-added first.
CurChildren == dds[runs[main_task].dd].children
\* The last _restart ran setup to the loop; its run is live until the next.
SetupDone == hist.outcome = "running"
\* The widget the last setup built from the k-th descriptor (k from 1).
BuiltFrom(k) == CurChildren[hist.n + 1 - k]
\* The selection before the last _restart is among the new children.
PreviousSelectionKept ==
    hist.before.selection # NoWidget
        /\ hist.before.selection \in Range(CurChildren)

\* C1: at most one run of the control loop is live at any time, and it is
\* the task _main_task refers to.
C1_AtMostOneLoop ==
    Cardinality(DOMAIN runs) <= 1 /\ DOMAIN runs \subseteq {main_task}

\* A restart has cancelled a live run and started the run that is live now.
C1_Witness ==
    hist.before.live /\ hist.after.done /\ SetupDone
        /\ Cardinality(DOMAIN runs) = 1

\* C2: a frame that follows N >= 1 mutations of watched properties runs
\* _restart exactly once; a frame that follows none runs no _restart.
C2_Debounce ==
    [][/\ restarts' \in {restarts, restarts + 1}
       /\ (restarts' = restarts + 1) => (muts >= 1 /\ muts' = 0)
       /\ (muts >= 1 /\ muts' = 0) => (restarts' = restarts + 1)]_vars

\* MaxMuts mutations were followed by the only restart so far.
C2_Witness == restarts = 1 /\ hist.batch = MaxMuts /\ muts = 0

\* C3: when a restart cancels a live run, that run's cleanup is complete and
\* no run is live when the new setup begins, and the pool the new setup
\* reads holds the cancelled run's dropdown and its final children.
C3_CleanupBeforeSetup ==
    hist.before.live =>
        /\ hist.after.done
        /\ hist.after.nruns = 0
        /\ hist.seen = hist.after.res
        /\ hist.seen.dropdown = hist.before.dd
        /\ hist.seen.option_widgets = Reverse(hist.before.children)

\* A run with MaxOptions children was cancelled while Open, and the new
\* setup reached the loop.
C3_Witness ==
    hist.before.live /\ hist.before.pc = "dismiss"
        /\ Len(hist.before.children) = MaxOptions /\ SetupDone

\* C4: across a restart from a live run to a new live run, an unchanged
\* option class and descriptor count give the same set of option widgets in
\* the overlay, and a changed option class gives none of the old ones.
C4_PoolReuse ==
    (hist.before.live /\ SetupDone) =>
        /\ (hist.before.option_cls = runs[main_task].option_cls
                /\ hist.before.n = hist.n)
            => Range(CurChildren) = Range(hist.before.children)
        /\ (hist.before.option_cls # runs[main_task].option_cls)
            => Range(CurChildren) \cap Range(hist.before.children) = {}

\* C5 as claimed: with the previous selection not among the new children
\* and auto_select index i, setup selects the widget built from the
\* descriptor at position n-1-i (from 0) when i < n, and nothing otherwise.
C5_AutoSelectFromEnd ==
    (SetupDone /\ ~PreviousSelectionKept) =>
        IF hist.auto # NoAuto /\ hist.auto < hist.n
        THEN hist.selected = BuiltFrom(hist.n - hist.auto)
        ELSE hist.selected = NoWidget

\* C5 as amended: setup selects the child added (i+1)-th when i is below
\* the number c of children, and nothing otherwise; when c = n that child is
\* the widget built from the descriptor at position i counted from the start.
C5_AutoSelectFromStart ==
    (SetupDone /\ ~PreviousSelectionKept) =>
        LET c == Len(CurChildren)
        IN  /\ IF hist.auto # NoAuto /\ hist.auto < c
               THEN hist.selected = CurChildren[c - hist.auto]
               ELSE hist.selected = NoWidget
            /\ (c = hist.n /\ hist.auto # NoAuto /\ hist.auto < hist.n) =>
                  /\ hist.selected = BuiltFrom(hist.auto + 1)
                  /\ ws[hist.selected].text = hist.auto + 1

\* Setup with MaxOptions descriptors and index 0 selected the widget of the
\* first descriptor.
C5_Witness ==
    SetupDone /\ ~PreviousSelectionKept
        /\ hist.n = MaxOptions /\ Len(CurChildren) = MaxOptions
        /\ hist.auto = 0 /\ hist.selected = BuiltFrom(1)
        /\ ws[hist.selected].text = 1

\* C6: when the widget selected before a restart is a child of the overlay
\* after the new setup, the selection after setup is that widget.
C6_SelectionStable ==
    (SetupDone /\ PreviousSelectionKept) =>
        hist.selected = hist.before.selection

\* The selection was kept although the auto_select index names another
\* child.
C6_Witness ==
    SetupDone /\ PreviousSelectionKept
        /\ hist.selected = hist.before.selection
        /\ hist.auto # NoAuto /\ hist.auto < Len(CurChildren)
        /\ CurChildren[Len(CurChildren) - hist.auto] # hist.selected

\* C7: in a live run an activation received while awaiting activation opens
\* the overlay once and moves the loop to Open; a delivered dismissal moves
\* an Open loop back and opens nothing; open is invoked only on an
\* activation received while awaiting activation; opens never exceed
\* activations.
C7_OpenCloseCycle ==
    /\ [](\A t \in DOMAIN runs : runs[t].opens <= runs[t].acts)
    /\ [][\A t \in (DOMAIN runs) \cap (DOMAIN runs') :
            LET r == runs[t]
                r2 == runs'[t]
            IN  /\ r2.opens \in {r.opens, r.opens + 1}
                /\ (r.pc = "release" /\ r2.acts = r.acts + 1) =>
                      /\ r2.pc = "dismiss"
                      /\ r2.opens = r.opens + 1
                      /\ dds'[r.dd].open
                /\ (r.pc = "dismiss"
                        /\ dds'[r.dd].pending = dds[r.dd].pending - 1) =>
                      /\ r2.pc = "release"
                      /\ r2.opens = r.opens
                /\ (r2.opens = r.opens + 1) =>
                      /\ r.pc = "release"
                      /\ r2.acts = r.acts + 1]_vars

\* A run was opened, dismissed and opened again.
C7_Witness ==
    \E t \in DOMAIN runs :
        runs[t].opens = 2 /\ runs[t].acts = 2 /\ runs[t].pc = "dismiss"
            /\ dds[runs[t].dd].open

\* C8 as claimed: after a restart that finds dropdown_cls empty, until the
\* next restart, no loop is live, no dropdown is open and the selection is
\* empty.
C8_AbortSelectionEmpty ==
    hist.outcome = "no_dropdown_cls" =>
        /\ DOMAIN runs = {}
        /\ \A d \in 1..Len(dds) : ~dds[d].open
        /\ selection = NoWidget

\* C8 as amended: ... no loop is live, no dropdown is open and the
\* selection is the one the control had when that restart began.
C8_AbortOnMissingClass ==
    hist.outcome = "no_dropdown_cls" =>
        /\ DOMAIN runs = {}
        /\ \A d \in 1..Len(dds) : ~dds[d].open
        /\ selection = hist.before.selection

\* The restart that found dropdown_cls empty cancelled an Open run that had
\* a selection.
C8_Witness ==
    hist.outcome = "no_dropdown_cls" /\ hist.before.live
        /\ hist.before.pc = "dismiss" /\ selection # NoWidget

\* C9: right after the cleanup of a cancelled live run, its on_select
\* handler and its height binding are unbound, its dropdown is empty and
\* closed, and the pool holds that dropdown and its former children.
C9_CleanupComplete ==
    hist.before.live =>
        /\ hist.after.done
        /\ hist.after.nruns = 0
        /\ hist.after.on_select = 0
        /\ hist.before.sync => ~hist.after.hbound
        /\ hist.after.children = <<>>
        /\ ~hist.after.open
        /\ hist.after.res.dropdown = hist.before.dd
        /\ Range(hist.after.res.option_widgets) = Range(hist.before.children)
        /\ Len(hist.after.res.option_widgets) = Len(hist.before.children)

\* An Open run with children and a height binding was cancelled.
C9_Witness ==
    hist.before.live /\ hist.before.pc = "dismiss" /\ hist.before.sync
        /\ hist.before.children # <<>> /\ hist.after.done

\* C10: no release handler bound by an earlier run's setup is left on an
\* option widget: every option widget in the overlay of a live run has
\* exactly one release handler (one release, one call of select).
C10_NoLeakedSubscription ==
    \A t \in DOMAIN runs :
        \A w \in Range(dds[runs[t].dd].children) :
            Len(ws[w].handlers) = 1

\* No watched property changed since the last restart, and the descriptors
\* and classes it read let a setup run to the loop.
ValidConfig ==
    /\ ~triggered
    /\ dropdown_cls # "" /\ option_cls # ""
    /\ \A k \in 1..Len(option_data) : option_data[k].ok

\* C11: after a setup that raised while applying a descriptor, the next
\* setup begins with no child left in the pooled overlay and with no pooled
\* widget that still has a parent, and reaches the loop when the descriptors
\* and the classes are valid.
C11_AbortedSetupCleaned ==
    hist.prev = "raised" =>
        /\ hist.seen.dropdown # NoDropdown =>
              hist.begin.children[hist.seen.dropdown] = <<>>
        /\ \A w \in Range(hist.seen.option_widgets) :
              \A d \in DOMAIN hist.begin.children :
                  w \notin Range(hist.begin.children[d])
        /\ ValidConfig => SetupDone

\* The last setup returned early for want of a class.
SetupAborted == hist.outcome \in {"no_dropdown_cls", "no_option_cls"}

\* C12: after a setup that returned early because dropdown_cls or
\* option_cls is empty, no loop is live and the pool, the bindings on the
\* control (spacing/padding setters, height bindings) and the children of
\* every overlay are what they were when that setup began.
C12_AbortLeavesNoTrace ==
    SetupAborted =>
        /\ DOMAIN runs = {}
        /\ res = hist.seen
        /\ links = hist.begin.links
        /\ hbinds = hist.begin.hbinds
        /\ \A d \in DOMAIN hist.begin.children :
              dds[d].children = hist.begin.children[d]

\* p: the number of pooled widgets the last setup could reuse, 0 when the
\* pool it read was empty or its first widget was of another class.
Compatible ==
    LET pool == hist.seen.option_widgets
    IN  IF pool # <<>> /\ ws[pool[1]].cls = runs[main_task].option_cls
        THEN Len(pool) ELSE 0

\* C13: a setup with n descriptors and p compatible pooled widgets calls
\* option_cls() exactly max(0, n - p) times, and the overlay ends with
\* exactly n children.
C13_ConstructsOnDemand ==
    SetupDone =>
        /\ hist.constructed = Max(0, hist.n - Compatible)
        /\ Len(CurChildren) = hist.n

\* C14: every child of the overlay of a live run is an instance of the
\* option class that run resolved, and the pooled widgets are all of one
\* class.
C14_OneOptionClass ==
    /\ \A t \in DOMAIN runs :
          \A w \in Range(dds[runs[t].dd].children) :
              ws[w].cls = runs[t].option_cls
    /\ \A v, w \in Range(res.option_widgets) : ws[v].cls = ws[w].cls

\* Option widget w is released while it is a child of the open overlay of
\* the live run.
ReleasedInOpenRun(w) ==
    /\ Live
    /\ runs[main_task].pc = "dismiss"
    /\ dds[runs[main_task].dd].open
    /\ w \in Range(CurChildren)
    /\ Install(on_release_item(Cur, w))
    /\ UNCHANGED <<restarts, muts, triggered>>
    /\ UNCHANGED cfgvars

\* C15: releasing a child of the open overlay of the live run selects that
\* widget and schedules the overlay's dismissal, and the delivered dismissal
\* puts the loop back to awaiting activation; while no run is live, no
\* step but a restart changes the selection.
C15_SelectAndDismiss ==
    /\ [][\A w \in 1..Len(ws) : ReleasedInOpenRun(w) =>
            /\ selection' = w
            /\ dds'[runs[main_task].dd].pending > 0
            /\ runs' = runs]_vars
    /\ [][(Live /\ runs[main_task].pc = "dismiss" /\ Live'
            /\ main_task' = main_task
            /\ dds'[runs[main_task].dd].pending
                    = dds[runs[main_task].dd].pending - 1) =>
            /\ runs'[main_task].pc = "release"
            /\ selection' = selection]_vars
    /\ [][(DOMAIN runs = {} /\ restarts' = restarts) =>
            selection' = selection]_vars

\* After a cleanup with no new run, a pooled widget was released: its
\* handler called select on the pooled overlay (a dismissal is scheduled).
C15_Witness ==
    /\ DOMAIN runs = {}
    /\ hist.before.live
    /\ res.dropdown # NoDropdown
    /\ dds[res.dropdown].pending > 0
    /\ ~dds[res.dropdown].open
    /\ selection # NoWidget

\* The widget that served the k-th descriptor (k from 1) in the run the
\* last restart cancelled.
ServedBefore(k) == hist.before.children[hist.before.n + 1 - k]

\* C16: the cleanup of a cancelled run pools its widgets in the order of
\* the descriptors they served, and when the new setup reaches the loop
\* with the same option class, every position below both descriptor counts
\* is served by the widget that served it before.
C16_PoolKeepsOrder ==
    hist.before.live =>
        /\ \A k \in 1..hist.before.n :
              hist.after.res.option_widgets[k] = ServedBefore(k)
        /\ (SetupDone
                /\ hist.before.option_cls = runs[main_task].option_cls) =>
              \A k \in 1..hist.n :
                  k <= hist.before.n => BuiltFrom(k) = ServedBefore(k)

\* The live run bound the height synchronisation in its setup.
SyncLive == Live /\ runs[main_task].sync

\* C17: while a run set up with sync_height is live, every option widget
\* in its overlay has the control's height, right after setup and after
\* every change of the control's height; a change of the control's height
\* while no such run is live (after its cleanup, or in a run set up with
\* the flag clear) changes no option widget's height.
C17_HeightSync ==
    /\ [](SyncLive => \A w \in Range(CurChildren) : ws[w].height = height)
    /\ [][(height' # height /\ ~SyncLive) =>
            \A w \in 1..Len(ws) : ws'[w].height = ws[w].height]_vars

\* The control was resized during a run that syncs heights: its children
\* followed, and a widget an earlier run had synced did not.
C17_Witness ==
    /\ SyncLive
    /\ height # 100
    /\ CurChildren # <<>>
    /\ \A w \in Range(CurChildren) : ws[w].height = height
    /\ \E w \in 1..Len(ws) : ws[w].height = 100

\* C18: while a run is live, the selection is empty or a child of that
\* run's overlay.
C18_SelectionIsChild ==
    Live => (selection = NoWidget \/ selection \in Range(CurChildren))

\* C19: until the first restart no run exists, no dropdown exists and
\* _main_task is the dummy task, whatever the constructor was given and
\* whatever signals arrive; a restart is scheduled only once a watched
\* property has changed after construction, and the first restart is the
\* tick that follows such a change.
C19_IdleUntilFirstMutation ==
    /\ [](restarts = 0 =>
            /\ DOMAIN runs = {}
            /\ main_task = dummy_task
            /\ dds = <<>>
            /\ selection = NoWidget
            /\ triggered => muts >= 1)
    /\ [][(restarts = 0 /\ restarts' = 1) => (triggered /\ muts >= 1)]_vars

\* A control constructed with MaxOptions valid descriptors and valid
\* classes is idle, also after a watched property changed and before the
\* tick.
C19_Witness ==
    /\ restarts = 0
    /\ option_data = GoodData(MaxOptions)
    /\ dropdown_cls # "" /\ option_cls # ""
    /\ triggered
    /\ DOMAIN runs = {}

\* C20: an activation received while the run is Open leaves the loop
\* waiting for the dismissal and opens nothing, and a dismissal received
\* while the run awaits activation leaves it awaiting activation with the
\* overlay closed; a loop that awaits activation has its overlay closed,
\* so no activation received earlier reopens it.
C20_SignalsNotQueued ==
    /\ [](\A t \in DOMAIN runs :
            runs[t].pc = "release" => ~dds[runs[t].dd].open)
    /\ [][\A t \in (DOMAIN runs) \cap (DOMAIN runs') :
            LET r == runs[t]
                r2 == runs'[t]
            IN  /\ (r.pc = "dismiss" /\ r2.acts = r.acts + 1) =>
                      /\ r2.pc = "dismiss"
                      /\ r2.opens = r.opens
                      /\ dds' = dds
                /\ (r.pc = "release"
                        /\ dds'[r.dd].pending = dds[r.dd].pending - 1) =>
                      /\ r2.pc = "release"
                      /\ r2.opens = r.opens
                      /\ r2.acts = r.acts
                      /\ ~dds'[r.dd].open]_vars

\* A run was activated, activated again while Open, and dismissed: it
\* awaits activation with one open for two activations.
C20_Witness ==
    \E t \in DOMAIN runs :
        /\ runs[t].pc = "release"
        /\ runs[t].acts = 2
        /\ runs[t].opens = 1
        /\ ~dds[runs[t].dd].open
        /\ dds[runs[t].dd].pending = 0
====
